---- MODULE Spec2Model ----
(***************************************************************************)
(* The connection and proxy subsystem of the MCP gateway (src/server.py):  *)
(* connect_to_service, establish_sse_connection, proxy_tool_call and       *)
(* list_service_tools, run as coroutines of one cooperative event loop.    *)
(* Every action is one run of a coroutine between two suspension points    *)
(* (an await), or one step of the environment (the remote service, the     *)
(* registry, the clock).                                                   *)
(***************************************************************************)
EXTENDS Integers, FiniteSets, Sequences, TLC

\* ------------------------------------------------------------------ bounds
MaxCalls == 2        \* dispatcher invocations in flight at one time
MaxTasks == 2        \* handshake tasks created in one behaviour
TickUnit == 15       \* time units the clock advances in one step
MaxItems == 2        \* content items in the result of one tool call

\* ------------------------------------------------------- program constants
HandshakeWaitTimeout == 15   \* asyncio.wait_for(connection_future, timeout=15.0)
ToolCallTimeout == 30        \* asyncio.wait_for(session.call_tool(..), timeout=30.0)
TimeoutMessageSeconds == 30  \* "... timed out after 30 seconds"

Calls == 1..MaxCalls
Tasks == 1..MaxTasks
ServiceIds == {"svc1", "svc2", "svc3"}
ToolNames == {"echo", "add"}

\* Python's None, for a key the registry's JSON does not carry.
None == "<None>"
NoSession == 0
NoTask == 0

\* The values a URL field of a service can hold: absent, empty, a URL.
UrlValues == {None, "", "http://remote/sse"}

\* The service documents the registry can hold: event-stream services with
\* every combination of URL fields, and services of the other transports.
SseDocs ==
    {[transport_type |-> "sse", sse_event_url |-> e, sse_message_url |-> m] :
        e \in UrlValues, m \in UrlValues}

ValidSseDoc == [transport_type |-> "sse", sse_event_url |-> "http://remote/sse",
                sse_message_url |-> "http://remote/sse"]

OtherDocs ==
    {[transport_type |-> tt, sse_event_url |-> None, sse_message_url |-> None] :
        tt \in {"http", None, "stdio"}}

\* The documents of an http service: transport_type "http", or no such key.
HttpDocs == {d \in OtherDocs : d.transport_type \in {"http", None}}

\* The content items a remote tool can answer with: an attribute the item
\* does not have is None. Text items, a text-tagged item without text, an
\* image, a resource with and without a uri, an item of another type, and an
\* item without a type.
ContentItems ==
    {[type |-> "text", text |-> "A", uri |-> None],
     [type |-> "text", text |-> "B", uri |-> None],
     [type |-> "text", text |-> None, uri |-> None],
     [type |-> "image", text |-> None, uri |-> None],
     [type |-> "resource", text |-> None, uri |-> "r://1"],
     [type |-> "resource", text |-> None, uri |-> None],
     [type |-> "audio", text |-> None, uri |-> None],
     [type |-> None, text |-> None, uri |-> None]}

\* A result.content that is not a list.
NotAList == [list |-> FALSE, items |-> << >>]

\* result.content: a list of at most MaxItems items, or not a list.
Contents ==
    {[list |-> TRUE, items |-> its] :
        its \in UNION {[1..n -> ContentItems] : n \in 0..MaxItems}}
    \cup {NotAList}

\* The contents without items: what a call returns does not depend on the
\* items of an earlier result.
EmptyContents == {content \in Contents : content.items = << >>}

\* What fetch_from_registry returns for an unknown id or a failed request.
NoService == [transport_type |-> "<absent>", sse_event_url |-> None,
              sse_message_url |-> None]

\* The registry is another process: the gateway sees the document it holds
\* for an id only through a fetch, and the document may have been replaced
\* since the last one. Catalog(sid) is what it may hold for sid: svc1 is a
\* service of any transport, svc3 an http service at every fetch, and svc2
\* an id the registry does not know.
Catalog(sid) ==
    IF sid = "svc1" THEN SseDocs \cup OtherDocs
    ELSE IF sid = "svc3" THEN HttpDocs
    ELSE {}

InCatalog(sid) == Catalog(sid) # {}

VARIABLES
    calls,               \* calls[c]: one invocation of a dispatcher operation
    tasks,               \* tasks[t]: one establish_sse_connection task and its session
    futures,             \* futures[t]: the connection_future handed to task t
    active_connections,  \* service id -> session (the task that owns it) or NoSession
    returned             \* the outcome returned to a caller in the step just taken

vars == <<calls, tasks, futures, active_connections, returned>>

\* ------------------------------------------------------------------ values
\* The text an operation returns: its kind, and what the text names.
Outcome(k, sid) == [kind |-> k, sid |-> sid, tool |-> "", secs |-> 0]

NoOutcome == Outcome("none", "")

\* retry: the session of the call on the same id whose timeout outcome the
\* caller had just received when it issued this one.
IdleCall == [op |-> "none", sid |-> "", tool |-> "", pc |-> "idle",
             service |-> NoService, task |-> NoTask, sess |-> NoSession,
             elapsed |-> 0, retry |-> NoSession]

NewCall(op, sid, tool, pc) ==
    [IdleCall EXCEPT !.op = op, !.sid = sid, !.tool = tool, !.pc = pc,
                     !.retry = IF /\ returned.outcome.kind = "CallTimeout"
                                  /\ returned.outcome.sid = sid
                                  /\ pc = "calling"
                               THEN returned.sess ELSE NoSession]

UnusedTask == [pc |-> "unused", sid |-> "", event_url |-> None, reply |-> "none",
               link |-> "none"]

\* `service_id in active_connections`
InTable(sid) == active_connections[sid] # NoSession

\* `url is None` in the place of `not url`.
FalsyOnlyNone(u) == u = None

\* `not url`: None and the empty string are falsy.
Falsy(u) == u = None \/ u = ""

\* service.get("transport_type", "sse"): a missing key read as event-stream.
TransportOfDefaultSse(service) ==
    IF service.transport_type = None THEN "sse" ELSE service.transport_type

\* service.get("transport_type", "http")
TransportOf(service) ==
    IF service.transport_type = None THEN "http" ELSE service.transport_type

\* str(item): the generic representation of an item.
Str(item) == "str(" \o (IF item.type = None THEN "" ELSE item.type) \o ")"

\* A loop body that appends str(item) for every item.
RenderWithoutTypes(item) == Str(item)

\* Lines 188-198, the part appended for one item.
Render(item) ==
    IF item.type # None
    THEN IF item.type = "text" /\ item.text # None THEN item.text
         ELSE IF item.type = "image" THEN "[Image content]"
         ELSE IF item.type = "resource"
         THEN "[Resource: " \o (IF item.uri # None THEN item.uri ELSE "Unknown") \o "]"
         ELSE Str(item)
    ELSE Str(item)

\* "\n".join(parts)
RECURSIVE Join(_)
Join(parts) ==
    IF parts = << >> THEN ""
    ELSE IF Len(parts) = 1 THEN parts[1]
    ELSE parts[1] \o "\n" \o Join(Tail(parts))

\* Lines 185-203: the text returned for a result.
Normalize(content) ==
    "Tool execution result:\n" \o
        (IF content.list
         THEN Join([i \in 1..Len(content.items) |-> Render(content.items[i])])
         ELSE "str(content)")

\* An invocation takes the first free slot and frees it when it returns; a
\* handshake task takes the first task slot not yet used.
NextCall(c) == calls[c].pc = "idle" /\ \A d \in Calls : d < c => calls[d].pc # "idle"
NextTask(t) == tasks[t].pc = "unused" /\ \A u \in Tasks : u < t => tasks[u].pc # "unused"

NoReturn == [op |-> "none", service |-> NoService, task |-> NoTask,
             sess |-> NoSession, outcome |-> NoOutcome,
             content |-> NotAList, text |-> ""]

\* A step in which no invocation returns.
Silent == returned' = NoReturn

\* Invocation c returns `out` to its caller.
Return(c, call, out) ==
    /\ calls' = [calls EXCEPT ![c] = IdleCall]
    /\ returned' = [op |-> call.op, service |-> call.service,
                    task |-> call.task, sess |-> call.sess, outcome |-> out,
                    content |-> NotAList, text |-> ""]

Init ==
    /\ calls = [c \in Calls |-> IdleCall]
    /\ tasks = [t \in Tasks |-> UnusedTask]
    /\ futures = [t \in Tasks |-> "none"]
    /\ active_connections = [s \in ServiceIds |-> NoSession]
    /\ returned = NoReturn

\* ---------------------------------------------------------------- registry
\* A fetch without raise_for_status(): the body of an error response is
\* returned as the service, a document with none of the keys.
fetch_without_raise_for_status(sid, ok, doc) ==
    IF ok /\ doc \in Catalog(sid) THEN doc
    ELSE [transport_type |-> None, sse_event_url |-> None, sse_message_url |-> None]

\* fetch_from_registry: the document of the service, or None when the id is
\* unknown or the request fails (`except Exception: return None`).
fetch_from_registry(sid, ok, doc) ==
    IF ok /\ doc \in Catalog(sid) THEN doc ELSE NoService

\* ------------------------------------------------------- connect_to_service
\* An entry that does not look at the table.
ConnectStartNoCheck(c, sid) ==
    /\ NextCall(c)
    /\ calls' = [calls EXCEPT ![c] = NewCall("connect", sid, "", "fetching")]
    /\ UNCHANGED <<tasks, futures, active_connections>>
    /\ Silent

\* Entry, up to the await of the registry fetch.
ConnectStart(c, sid) ==
    /\ NextCall(c)
    /\ IF InTable(sid)
       THEN Return(c, NewCall("connect", sid, "", "start"),
                   Outcome("AlreadyConnected", sid))
       ELSE /\ calls' = [calls EXCEPT ![c] = NewCall("connect", sid, "", "fetching")]
            /\ Silent
    /\ UNCHANGED <<tasks, futures, active_connections>>

\* From the registry's answer to the return, or to the await of the future.
ConnectFetched(c, ok, doc) ==
    /\ calls[c].pc = "fetching"
    /\ ok => doc \in Catalog(calls[c].sid)
    /\ ~ok => doc = NoService
    /\ LET sid == calls[c].sid
           service == fetch_from_registry(sid, ok, doc)
           call == [calls[c] EXCEPT !.service = service]
       IN  IF service = NoService
           THEN /\ Return(c, call, Outcome("NotFound", sid))
                /\ UNCHANGED <<tasks, futures>>
           ELSE IF TransportOf(service) = "http"
           THEN /\ Return(c, call, Outcome("HttpConnected", sid))
                /\ UNCHANGED <<tasks, futures>>
           ELSE IF TransportOf(service) = "sse"
           THEN IF Falsy(service.sse_event_url) \/ Falsy(service.sse_message_url)
                THEN /\ Return(c, call, Outcome("MissingUrls", sid))
                     /\ UNCHANGED <<tasks, futures>>
                ELSE \E t \in Tasks :
                        /\ NextTask(t)
                        /\ futures' = [futures EXCEPT ![t] = "pending"]
                        /\ tasks' = [tasks EXCEPT ![t] =
                                        [pc |-> "opening", sid |-> sid,
                                         event_url |-> service.sse_event_url,
                                         reply |-> "none", link |-> "none"]]
                        /\ calls' = [calls EXCEPT ![c] =
                                        [call EXCEPT !.pc = "waiting", !.task = t,
                                                     !.elapsed = 0]]
                        /\ Silent
           ELSE /\ Return(c, call, Outcome("UnsupportedTransport", sid))
                /\ UNCHANGED <<tasks, futures>>
    /\ UNCHANGED active_connections

\* wait_for returns: the future holds a result, or its exception is raised
\* and caught by the outer `except Exception`.
ConnectResolved(c) ==
    /\ calls[c].pc = "waiting"
    /\ futures[calls[c].task] \in {"result", "exception"}
    /\ Return(c, calls[c], Outcome(IF futures[calls[c].task] = "result"
                                   THEN "SseConnected" ELSE "ConnectError",
                                   calls[c].sid))
    /\ UNCHANGED <<tasks, futures, active_connections>>

\* A timeout that cancels the handshake task as well.
ConnectTimeoutCancelsTask(c) ==
    /\ calls[c].pc = "waiting"
    /\ calls[c].elapsed >= HandshakeWaitTimeout
    /\ futures[calls[c].task] = "pending"
    /\ futures' = [futures EXCEPT ![calls[c].task] = "cancelled"]
    /\ tasks' = [tasks EXCEPT ![calls[c].task].pc = "closed",
                              ![calls[c].task].link = "none"]
    /\ Return(c, calls[c], Outcome("StillConnecting", calls[c].sid))
    /\ UNCHANGED active_connections

\* wait_for times out: it cancels the future it waits on, not the task.
ConnectTimeout(c) ==
    /\ calls[c].pc = "waiting"
    /\ calls[c].elapsed >= HandshakeWaitTimeout
    /\ futures[calls[c].task] = "pending"
    /\ futures' = [futures EXCEPT ![calls[c].task] = "cancelled"]
    /\ Return(c, calls[c], Outcome("StillConnecting", calls[c].sid))
    /\ UNCHANGED <<tasks, active_connections>>

\* ------------------------------------------------ establish_sse_connection
\* A failure handler that resolves the future and leaves the table alone.
HandshakeFailedNoCleanup(t) ==
    /\ futures' = [futures EXCEPT ![t] = IF @ = "pending" THEN "exception" ELSE @]
    /\ tasks' = [tasks EXCEPT ![t].pc = "failed", ![t].reply = "none",
                              ![t].link = "none"]
    /\ UNCHANGED active_connections

\* Lines 148-157, the handler of an exception raised while the channel is
\* opened or the session is initialized.
HandshakeFailed(t) ==
    /\ futures' = [futures EXCEPT ![t] = IF @ = "pending" THEN "exception" ELSE @]
    /\ active_connections' = [active_connections EXCEPT ![tasks[t].sid] = NoSession]
    /\ tasks' = [tasks EXCEPT ![t].pc = "failed", ![t].reply = "none",
                              ![t].link = "none"]

\* A handshake that stores the session as soon as it is created, before
\* initialize() is awaited.
HandshakeOpenStoresSession(t, ok) ==
    /\ tasks[t].pc = "opening"
    /\ IF ok
       THEN /\ tasks' = [tasks EXCEPT ![t].pc = "initializing", ![t].link = "up"]
            /\ active_connections' = [active_connections EXCEPT ![tasks[t].sid] = t]
            /\ UNCHANGED futures
       ELSE HandshakeFailed(t)
    /\ UNCHANGED calls
    /\ Silent

\* `async with sse_client(event_url)`, `async with ClientSession(..)`, up to
\* the await inside session.initialize(); or the channel does not open.
HandshakeOpen(t, ok) ==
    /\ tasks[t].pc = "opening"
    /\ IF ok
       THEN /\ tasks' = [tasks EXCEPT ![t].pc = "initializing", ![t].link = "up"]
            /\ UNCHANGED <<futures, active_connections>>
       ELSE HandshakeFailed(t)
    /\ UNCHANGED calls
    /\ Silent

\* The remote service answers the initialize request, or the exchange fails.
RemoteInitReply(t, r) ==
    /\ tasks[t].pc = "initializing"
    /\ tasks[t].reply = "none"
    /\ tasks' = [tasks EXCEPT ![t].reply = r]
    /\ UNCHANGED <<calls, futures, active_connections>>
    /\ Silent

\* A success path that stores the session only while the caller still waits.
HandshakeSucceededIfAwaited(t) ==
    /\ active_connections' = IF futures[t] = "pending"
                             THEN [active_connections EXCEPT ![tasks[t].sid] = t]
                             ELSE active_connections
    /\ futures' = [futures EXCEPT ![t] = IF @ = "pending" THEN "result" ELSE @]
    /\ tasks' = [tasks EXCEPT ![t].pc = "alive", ![t].reply = "none"]

\* A success path without the done() test: set_result on a future that is
\* no longer pending raises InvalidStateError, which the handler of lines
\* 148-157 catches; it deletes the entry just stored and the task ends.
HandshakeSucceededUnguarded(t) ==
    IF futures[t] = "pending"
    THEN /\ active_connections' = [active_connections EXCEPT ![tasks[t].sid] = t]
         /\ futures' = [futures EXCEPT ![t] = "result"]
         /\ tasks' = [tasks EXCEPT ![t].pc = "alive", ![t].reply = "none"]
    ELSE /\ active_connections' = [active_connections EXCEPT ![tasks[t].sid] = NoSession]
         /\ tasks' = [tasks EXCEPT ![t].pc = "failed", ![t].reply = "none",
                                   ![t].link = "none"]
         /\ UNCHANGED futures

\* Lines 126-131: the session is stored and the future resolved, with no
\* suspension point between the return of initialize() and the sleep.
HandshakeSucceeded(t) ==
    /\ active_connections' = [active_connections EXCEPT ![tasks[t].sid] = t]
    /\ futures' = [futures EXCEPT ![t] = IF @ = "pending" THEN "result" ELSE @]
    /\ tasks' = [tasks EXCEPT ![t].pc = "alive", ![t].reply = "none"]

\* The task resumes from `await session.initialize()`.
HandshakeInitResume(t) ==
    /\ tasks[t].pc = "initializing"
    /\ tasks[t].reply # "none"
    /\ IF tasks[t].reply = "ok" THEN HandshakeSucceeded(t) ELSE HandshakeFailed(t)
    /\ UNCHANGED calls
    /\ Silent

\* A keep-alive loop without the `finally`: the task ends and the table
\* keeps what it holds.
KeepAliveWithoutFinally(t) ==
    /\ tasks' = [tasks EXCEPT ![t].pc = "closed", ![t].link = "none"]
    /\ UNCHANGED <<futures, active_connections>>

\* Lines 143-147, the `finally` of the keep-alive loop, and the exit of the
\* two `async with` blocks, which closes the session.
KeepAliveFinally(t) ==
    /\ active_connections' = [active_connections EXCEPT ![tasks[t].sid] = NoSession]
    /\ tasks' = [tasks EXCEPT ![t].pc = "closed", ![t].link = "none"]
    /\ UNCHANGED futures

\* The task is cancelled while it sleeps: `except asyncio.CancelledError: pass`.
KeepAliveCancelled(t) ==
    /\ tasks[t].pc = "alive"
    /\ KeepAliveFinally(t)
    /\ UNCHANGED calls
    /\ Silent

\* The sleep raises: `except Exception` (line 141), then the `finally`.
KeepAliveRaised(t) ==
    /\ tasks[t].pc = "alive"
    /\ KeepAliveFinally(t)
    /\ UNCHANGED calls
    /\ Silent

\* The remote service closes the channel, or the transport breaks. The
\* keep-alive loop only sleeps: nothing of the task observes it.
RemoteClose(t) ==
    /\ tasks[t].pc = "alive"
    /\ tasks[t].link = "up"
    /\ tasks' = [tasks EXCEPT ![t].link = "down"]
    /\ UNCHANGED <<calls, futures, active_connections>>
    /\ Silent

\* ---------------------------------------------------------- proxy_tool_call
\* Entry, up to the await of session.call_tool under wait_for.
CallStart(c, sid, tool) ==
    /\ NextCall(c)
    /\ IF ~InTable(sid)
       THEN Return(c, NewCall("call_tool", sid, tool, "start"),
                   Outcome("NotConnected", sid))
       ELSE /\ calls' = [calls EXCEPT ![c] =
                            [NewCall("call_tool", sid, tool, "calling") EXCEPT
                                !.sess = active_connections[sid]]]
            /\ Silent
    /\ UNCHANGED <<tasks, futures, active_connections>>

\* The session answers within the timeout with a result of this content.
CallResult(c, content) ==
    /\ calls[c].pc = "calling"
    /\ calls[c].op = "call_tool"
    /\ tasks[calls[c].sess].pc = "alive"
    /\ tasks[calls[c].sess].link = "up"
    /\ calls' = [calls EXCEPT ![c] = IdleCall]
    /\ returned' = [op |-> "call_tool", service |-> calls[c].service,
                    task |-> calls[c].task, sess |-> calls[c].sess,
                    outcome |-> [Outcome("ToolResult", calls[c].sid) EXCEPT
                                    !.tool = calls[c].tool],
                    content |-> content, text |-> Normalize(content)]
    /\ UNCHANGED <<tasks, futures, active_connections>>

\* A proxy_tool_call without the `except Exception` clause: the exception
\* of session.call_tool leaves the coroutine.
CallRaisedEscapes(c) ==
    /\ calls[c].pc = "calling"
    /\ calls[c].op = "call_tool"
    /\ Return(c, calls[c], Outcome("Fault", calls[c].sid))
    /\ UNCHANGED <<tasks, futures, active_connections>>

\* session.call_tool raises: `except Exception` (line 206).
CallRaised(c) ==
    /\ calls[c].pc = "calling"
    /\ calls[c].op = "call_tool"
    /\ Return(c, calls[c], Outcome("CallError", calls[c].sid))
    /\ UNCHANGED <<tasks, futures, active_connections>>

\* A timeout handler that drops the session of the call that timed out.
CallTimeoutDropsSession(c) ==
    /\ calls[c].pc = "calling"
    /\ calls[c].op = "call_tool"
    /\ calls[c].elapsed >= ToolCallTimeout
    /\ Return(c, calls[c], [kind |-> "CallTimeout", sid |-> calls[c].sid,
                            tool |-> calls[c].tool, secs |-> TimeoutMessageSeconds])
    /\ active_connections' = [active_connections EXCEPT ![calls[c].sid] = NoSession]
    /\ UNCHANGED <<tasks, futures>>

\* wait_for times out: `except asyncio.TimeoutError` (line 204).
CallTimeout(c) ==
    /\ calls[c].pc = "calling"
    /\ calls[c].op = "call_tool"
    /\ calls[c].elapsed >= ToolCallTimeout
    /\ Return(c, calls[c], [kind |-> "CallTimeout", sid |-> calls[c].sid,
                           tool |-> calls[c].tool, secs |-> TimeoutMessageSeconds])
    /\ UNCHANGED <<tasks, futures, active_connections>>

\* -------------------------------------------------------- list_service_tools
\* An entry that also accepts a session whose handshake is in progress.
ListStartWhileConnecting(c, sid) ==
    /\ NextCall(c)
    /\ LET known == {t \in Tasks : tasks[t].sid = sid
                                   /\ tasks[t].pc \in {"opening", "initializing", "alive"}}
       IN  IF known = {}
           THEN Return(c, NewCall("list_tools", sid, "", "start"),
                       Outcome("NotConnected", sid))
           ELSE /\ calls' = [calls EXCEPT ![c] =
                                [NewCall("list_tools", sid, "", "calling") EXCEPT
                                    !.sess = CHOOSE t \in known : TRUE]]
                /\ Silent
    /\ UNCHANGED <<tasks, futures, active_connections>>

\* Entry, up to the await of session.list_tools().
ListStart(c, sid) ==
    /\ NextCall(c)
    /\ IF ~InTable(sid)
       THEN Return(c, NewCall("list_tools", sid, "", "start"),
                   Outcome("NotConnected", sid))
       ELSE /\ calls' = [calls EXCEPT ![c] =
                            [NewCall("list_tools", sid, "", "calling") EXCEPT
                                !.sess = active_connections[sid]]]
            /\ Silent
    /\ UNCHANGED <<tasks, futures, active_connections>>

\* The session answers with its tools, none or some.
ListResult(c, some) ==
    /\ calls[c].pc = "calling"
    /\ calls[c].op = "list_tools"
    /\ tasks[calls[c].sess].pc = "alive"
    /\ tasks[calls[c].sess].link = "up"
    /\ Return(c, calls[c], Outcome(IF some THEN "ToolList" ELSE "NoTools", calls[c].sid))
    /\ UNCHANGED <<tasks, futures, active_connections>>

\* session.list_tools raises: `except Exception` (line 250).
ListRaised(c) ==
    /\ calls[c].pc = "calling"
    /\ calls[c].op = "list_tools"
    /\ Return(c, calls[c], Outcome("ListError", calls[c].sid))
    /\ UNCHANGED <<tasks, futures, active_connections>>

\* ------------------------------------------------------------------- time
\* The timeout a suspended call waits under, or -1 when it has none.
TimeoutOf(c) ==
    IF calls[c].pc = "waiting" THEN HandshakeWaitTimeout
    ELSE IF calls[c].pc = "calling" /\ calls[c].op = "call_tool" THEN ToolCallTimeout
    ELSE -1

Timed(c) == TimeoutOf(c) >= 0

\* The clock advances for every call that waits under a timeout; a timeout
\* that has expired is handled before the clock advances again.
Tick ==
    /\ \E c \in Calls : Timed(c)
    /\ \A c \in Calls : Timed(c) => calls[c].elapsed < TimeoutOf(c)
    /\ calls' = [c \in Calls |->
                    IF Timed(c) THEN [calls[c] EXCEPT !.elapsed = @ + TickUnit]
                    ELSE calls[c]]
    /\ UNCHANGED <<tasks, futures, active_connections>>
    /\ Silent

Next ==
    \/ \E c \in Calls, s \in ServiceIds : ConnectStart(c, s)
    \/ \E c \in Calls, ok \in BOOLEAN, doc \in SseDocs \cup OtherDocs \cup {NoService} :
          ConnectFetched(c, ok, doc)
    \/ \E c \in Calls : ConnectResolved(c)
    \/ \E c \in Calls : ConnectTimeout(c)
    \/ \E t \in Tasks, ok \in BOOLEAN : HandshakeOpen(t, ok)
    \/ \E t \in Tasks, r \in {"ok", "error"} : RemoteInitReply(t, r)
    \/ \E t \in Tasks : HandshakeInitResume(t)
    \/ \E t \in Tasks : KeepAliveCancelled(t)
    \/ \E t \in Tasks : KeepAliveRaised(t)
    \/ \E t \in Tasks : RemoteClose(t)
    \/ \E c \in Calls, s \in ServiceIds, tl \in ToolNames : CallStart(c, s, tl)
    \/ \E c \in Calls, content \in EmptyContents : CallResult(c, content)
    \/ \E c \in Calls : CallRaised(c)
    \/ \E c \in Calls : CallTimeout(c)
    \/ \E c \in Calls, s \in ServiceIds : ListStart(c, s)
    \/ \E c \in Calls, some \in BOOLEAN : ListResult(c, some)
    \/ \E c \in Calls : ListRaised(c)
    \/ Tick

Spec == Init /\ [][Next]_vars

\* The event loop runs every task that is ready to resume: a handshake task
\* whose initialize() has been answered is resumed.
LiveSpec == Spec /\ \A t \in Tasks : WF_vars(HandshakeInitResume(t))

\* The event loop also runs its timers: the clock advances while a call waits
\* under a timeout, and a wait_for whose future is resolved or whose timeout
\* has expired is resumed. The remote service owes no answer.
TimerSpec ==
    /\ LiveSpec
    /\ WF_vars(Tick)
    /\ \A c \in Calls :
          /\ WF_vars(ConnectResolved(c))
          /\ WF_vars(ConnectTimeout(c))
          /\ WF_vars(CallTimeout(c))

\* proxy_tool_call on a connected service, with every content a result can
\* carry: from a state in which the handshake of svc1 has stored its session
\* and one call_tool is in flight, calls are made and answered.
NormalizeInit ==
    /\ \E tl \in ToolNames :
          calls = [c \in Calls |->
                     IF c = 1
                     THEN [IdleCall EXCEPT !.op = "call_tool", !.sid = "svc1",
                                           !.tool = tl, !.pc = "calling", !.sess = 1]
                     ELSE IdleCall]
    /\ tasks = [t \in Tasks |->
                  IF t = 1
                  THEN [pc |-> "alive", sid |-> "svc1",
                        event_url |-> "http://remote/sse", reply |-> "none",
                        link |-> "up"]
                  ELSE UnusedTask]
    /\ futures = [t \in Tasks |-> IF t = 1 THEN "result" ELSE "none"]
    /\ active_connections = [s \in ServiceIds |-> IF s = "svc1" THEN 1 ELSE NoSession]
    /\ returned = NoReturn

NormalizeNext ==
    \/ \E c \in Calls, tl \in ToolNames : CallStart(c, "svc1", tl)
    \/ \E c \in Calls, content \in Contents : CallResult(c, content)

NormalizeSpec == NormalizeInit /\ [][NormalizeNext]_vars

\* ------------------------------------------------------- reading a step
\* Invocation c starts in this step and suspends at its first await.
Starts(c) == calls[c].pc = "idle" /\ calls'[c].pc # "idle"

\* The suspended invocation c returns in this step.
Returns(c) == calls[c].pc # "idle" /\ calls'[c].pc = "idle"

\* An invocation starts and returns in this step, without suspending.
ImmediateReturn == returned' # NoReturn /\ calls' = calls

\* Operation op is invoked on service id sid in this step.
Invoked(op, sid) ==
    \/ ImmediateReturn /\ returned'.op = op /\ returned'.outcome.sid = sid
    \/ \E c \in Calls : Starts(c) /\ calls'[c].op = op /\ calls'[c].sid = sid

\* The invocation that starts in this step is forwarded to session x.
Forwarded(x) ==
    \E c \in Calls : Starts(c) /\ calls'[c].pc = "calling" /\ calls'[c].sess = x

\* The sessions of a service id: handshake in progress, or Ready.
Connecting(t) == tasks[t].pc \in {"opening", "initializing"}
Ready(t) == tasks[t].pc = "alive"
SessionsOf(sid) == {t \in Tasks : tasks[t].sid = sid /\ (Connecting(t) \/ Ready(t))}

\* ------------------------------------------------------------------ C1
\* C1: at most one Session (handshake in progress or Ready) exists per
\* service id at any time; a connect during a handshake in progress starts
\* no second handshake.
AtMostOneSessionPerService ==
    \A s \in ServiceIds : Cardinality(SessionsOf(s)) <= 1

\* ------------------------------------------------------------------ C2
\* C2: a connect whose handshake has neither succeeded nor failed when the
\* 15 units have elapsed returns the still-in-progress outcome, and only
\* then; the timeout leaves the handshake task running.
HandshakeTimeoutKeepsTask ==
    [][\A c \in Calls :
        /\ calls[c].pc = "waiting" => calls[c].elapsed < HandshakeWaitTimeout + TickUnit
        /\ (calls[c].pc = "waiting" /\ Returns(c)) =>
              LET t == calls[c].task
              IN  IF futures[t] = "pending"
                  THEN /\ calls[c].elapsed >= HandshakeWaitTimeout
                       /\ returned'.outcome = Outcome("StillConnecting", calls[c].sid)
                       /\ Connecting(t)
                       /\ tasks'[t] = tasks[t]
                       /\ active_connections' = active_connections
                  ELSE returned'.outcome.kind # "StillConnecting"]_vars

\* A connect has returned on the timeout and its handshake is still running.
TimedOutHandshakeRunning ==
    /\ returned.outcome.kind = "StillConnecting"
    /\ futures[returned.task] = "cancelled"
    /\ tasks[returned.task].pc = "initializing"

\* ------------------------------------------------------------------ C3
\* C3: once connect has returned on the timeout (the future is cancelled)
\* and the remote service has answered initialize, the table comes to hold
\* the Ready session of that handshake; and a list_tools or call_tool on an
\* id that the table holds is forwarded to the session the table holds.
SlowHandshakeConverges ==
    /\ \A t \in Tasks :
          (futures[t] = "cancelled" /\ tasks[t].pc = "initializing"
                                    /\ tasks[t].reply = "ok")
             ~> (Ready(t) /\ active_connections[tasks[t].sid] = t)
    /\ [][\A s \in ServiceIds, op \in {"list_tools", "call_tool"} :
            (Invoked(op, s) /\ InTable(s)) => Forwarded(active_connections[s])]_vars

\* A call is in flight on the session of a handshake whose connect timed out.
SlowHandshakeServed ==
    \E c \in Calls :
        /\ calls[c].pc = "calling"
        /\ futures[calls[c].sess] = "cancelled"
        /\ Ready(calls[c].sess)
        /\ active_connections[calls[c].sid] = calls[c].sess

TransportErrorCleanup ==
    (/\ returned.outcome.kind \in {"CallError", "ListError"}
     /\ tasks[returned.sess].link = "down")
        => active_connections[returned.outcome.sid] # returned.sess

\* ------------------------------------------------------------------ C6
\* C6: a call_tool returns the timeout outcome only once its 30 units have
\* elapsed, naming its tool and 30; the step leaves the table and the
\* sessions as they were; the clock does not pass the timeout of a call in
\* flight; and a call_tool on an id the table holds goes to that session.
CallTimeoutKeepsSession ==
    [][\A c \in Calls :
        /\ (calls[c].pc = "calling" /\ calls[c].op = "call_tool")
              => calls[c].elapsed < ToolCallTimeout + TickUnit
        /\ (Returns(c) /\ returned'.outcome.kind = "CallTimeout") =>
              /\ calls[c].op = "call_tool"
              /\ calls[c].elapsed >= ToolCallTimeout
              /\ returned'.outcome = [kind |-> "CallTimeout", sid |-> calls[c].sid,
                                     tool |-> calls[c].tool, secs |-> 30]
              /\ active_connections' = active_connections
              /\ tasks' = tasks
        /\ \A s \in ServiceIds :
              (Invoked("call_tool", s) /\ InTable(s)) =>
                  Forwarded(active_connections[s])]_vars

\* A call_tool issued after a call_tool on the same id timed out is in
\* flight on the session of the call that timed out, still the table's.
CallAfterTimeout ==
    \E c \in Calls :
        /\ calls[c].pc = "calling"
        /\ calls[c].op = "call_tool"
        /\ calls[c].retry # NoSession
        /\ calls[c].sess = calls[c].retry
        /\ active_connections[calls[c].sid] = calls[c].sess
        /\ Ready(calls[c].sess)

\* ------------------------------------------------------------------ C7
\* C7: list_tools and call_tool on an id the table does not hold return the
\* must-connect-first outcome at once, forward nothing to any session and
\* change neither the table nor a session.
NotConnectedGuard ==
    [][\A s \in ServiceIds, op \in {"list_tools", "call_tool"} :
        (Invoked(op, s) /\ ~InTable(s))
           => /\ ImmediateReturn
              /\ returned'.outcome = Outcome("NotConnected", s)
              /\ returned'.sess = NoSession
              /\ active_connections' = active_connections
              /\ tasks' = tasks
              /\ futures' = futures]_vars

\* The must-connect-first outcome, returned while a handshake for the id is
\* in progress.
RefusedWhileConnecting ==
    /\ returned.outcome.kind = "NotConnected"
    /\ \E t \in Tasks : tasks[t].sid = returned.outcome.sid /\ Connecting(t)

\* ------------------------------------------------------------------ C8
\* C8: connect on an id whose session the table holds returns the
\* already-connected outcome at once, starts no handshake task and leaves
\* the table as it was.
AlreadyConnectedIsNoOp ==
    [][\A s \in ServiceIds :
        (Invoked("connect", s) /\ InTable(s))
           => /\ ImmediateReturn
              /\ returned'.outcome = Outcome("AlreadyConnected", s)
              /\ active_connections' = active_connections
              /\ tasks' = tasks
              /\ futures' = futures]_vars

\* The already-connected outcome, for an id with a Ready session in the table.
AlreadyConnectedReturned ==
    /\ returned.outcome.kind = "AlreadyConnected"
    /\ InTable(returned.outcome.sid)
    /\ Ready(active_connections[returned.outcome.sid])

\* ------------------------------------------------------------------ C9
\* C9: a connect that fetches an event-stream service whose event URL or
\* message URL is absent or empty returns the missing-URLs outcome in that
\* step, creating no task and no table entry; no task is ever started with
\* an absent or empty event URL.
MissingUrlsIsConfigurationError ==
    [][/\ \A t \in Tasks :
            tasks'[t].pc # "unused" => tasks'[t].event_url \notin {None, ""}
       /\ \A c \in Calls :
            (calls[c].pc = "fetching" /\ calls'[c].pc # "fetching") =>
               LET svc == IF Returns(c) THEN returned'.service
                          ELSE calls'[c].service
               IN  (/\ svc.transport_type = "sse"
                    /\ \/ svc.sse_event_url \in {None, ""}
                       \/ svc.sse_message_url \in {None, ""})
                      => /\ Returns(c)
                         /\ returned'.outcome = Outcome("MissingUrls", calls[c].sid)
                         /\ tasks' = tasks
                         /\ futures' = futures
                         /\ active_connections' = active_connections]_vars

\* The missing-URLs outcome for a service whose message URL is empty.
EmptyMessageUrlRefused ==
    /\ returned.outcome.kind = "MissingUrls"
    /\ returned.service.sse_event_url = "http://remote/sse"
    /\ returned.service.sse_message_url = ""
    /\ \A t \in Tasks : tasks[t].sid # returned.outcome.sid

\* ------------------------------------------------------------------ C10
\* C10, as the spec states it: every operation on an id the catalog does not
\* hold returns the NotFound outcome.
UnknownServiceIsNotFound ==
    (returned.op # "none" /\ ~InCatalog(returned.outcome.sid))
        => returned.outcome.kind = "NotFound"

\* C10, amended: for an id the catalog does not hold, connect returns the
\* NotFound outcome, list_tools and call_tool return the must-connect-first
\* outcome, and no handshake task and no table entry exists for the id.
UnknownServiceOutcome ==
    \A s \in ServiceIds :
        ~InCatalog(s) =>
            /\ ~InTable(s)
            /\ \A t \in Tasks : tasks[t].sid # s
            /\ \A c \in Calls : calls[c].sid = s => calls[c].pc = "fetching"
            /\ (returned.op # "none" /\ returned.outcome.sid = s) =>
                  \/ returned.op = "connect" /\ returned.outcome.kind = "NotFound"
                  \/ /\ returned.op \in {"list_tools", "call_tool"}
                     /\ returned.outcome.kind = "NotConnected"

\* connect has returned NotFound for an id the catalog does not hold.
UnknownServiceRefused ==
    /\ returned.op = "connect"
    /\ ~InCatalog(returned.outcome.sid)
    /\ returned.outcome.kind = "NotFound"

\* ------------------------------------------------------------------ C11
\* C11: a connect that fetches an http service (transport_type "http", or
\* none) returns the http-connected outcome in that step and creates no
\* task and no table entry; for an id that is an http service at every
\* fetch, there is never a handshake task or a table entry, no call is ever
\* forwarded, and list_tools and call_tool return must-connect-first.
HttpConnectCreatesNoSession ==
    /\ [](\A s \in ServiceIds :
            (InCatalog(s) /\ Catalog(s) \subseteq HttpDocs) =>
                /\ ~InTable(s)
                /\ \A t \in Tasks : tasks[t].sid # s
                /\ \A c \in Calls : calls[c].sid = s => calls[c].pc = "fetching"
                /\ (returned.op \in {"list_tools", "call_tool"}
                       /\ returned.outcome.sid = s)
                      => returned.outcome.kind = "NotConnected")
    /\ [][\A c \in Calls :
            (/\ calls[c].pc = "fetching"
             /\ calls'[c].pc # "fetching"
             /\ returned'.service.transport_type \in {"http", None})
               => /\ Returns(c)
                  /\ returned'.outcome = Outcome("HttpConnected", calls[c].sid)
                  /\ tasks' = tasks
                  /\ futures' = futures
                  /\ active_connections' = active_connections]_vars

\* connect has returned the http-connected outcome for an id that is always
\* an http service, while another connect on that id is in progress.
HttpConnectedTwice ==
    /\ returned.outcome.kind = "HttpConnected"
    /\ Catalog(returned.outcome.sid) \subseteq HttpDocs
    /\ ~InTable(returned.outcome.sid)
    /\ \E c \in Calls : calls[c].sid = returned.outcome.sid /\ calls[c].pc = "fetching"

\* ------------------------------------------------------------------ C12
\* C12: every invocation of connect, list_tools and call_tool that ends,
\* ends by returning one of the descriptive outcomes of its operation, in
\* every interleaving; none ends in a fault.
NoRawFault ==
    [][\A c \in Calls :
        (Returns(c) \/ (ImmediateReturn /\ NextCall(c))) =>
            /\ returned'.op \in {"connect", "list_tools", "call_tool"}
            /\ returned'.op = "connect" =>
                  returned'.outcome.kind \in
                      {"AlreadyConnected", "NotFound", "HttpConnected", "MissingUrls",
                       "UnsupportedTransport", "SseConnected", "ConnectError",
                       "StillConnecting"}
            /\ returned'.op = "call_tool" =>
                  returned'.outcome.kind \in
                      {"NotConnected", "ToolResult", "CallError", "CallTimeout"}
            /\ returned'.op = "list_tools" =>
                  returned'.outcome.kind \in
                      {"NotConnected", "ToolList", "NoTools", "ListError"}]_vars

\* A call in flight on a session that was torn down has returned its error
\* outcome.
CallOnClosedSessionReturned ==
    /\ returned.outcome.kind \in {"CallError", "ListError"}
    /\ tasks[returned.sess].pc = "closed"

\* ------------------------------------------------------------------ C13
\* The part the claim gives for one item: the literal text of a text item,
\* the image marker, the resource marker with the item's uri (the word
\* Unknown for a resource item that carries none), the generic
\* representation for every other item.
PartOf(item) ==
    CASE item.type = "text" /\ item.text # None -> item.text
      [] item.type = "image" -> "[Image content]"
      [] item.type = "resource" /\ item.uri # None -> "[Resource: " \o item.uri \o "]"
      [] item.type = "resource" /\ item.uri = None -> "[Resource: Unknown]"
      [] OTHER -> "str(" \o (IF item.type = None THEN "" ELSE item.type) \o ")"

\* The parts of the items from the i-th on, each on a line of its own.
RECURSIVE LinesFrom(_, _)
LinesFrom(items, i) ==
    IF i > Len(items) THEN ""
    ELSE IF i = Len(items) THEN PartOf(items[i])
    ELSE PartOf(items[i]) \o "\n" \o LinesFrom(items, i + 1)

\* C13: a successful call_tool whose result's content is a sequence of
\* items returns the banner 'Tool execution result:' and then one part per
\* item, in the items' order, joined by newlines.
ContentNormalization ==
    (returned.outcome.kind = "ToolResult" /\ returned.content.list) =>
        returned.text =
            "Tool execution result:\n" \o LinesFrom(returned.content.items, 1)

\* A result of a text item and a resource item has been returned.
TextThenResourceReturned ==
    /\ returned.outcome.kind = "ToolResult"
    /\ returned.content.list
    /\ Len(returned.content.items) = 2
    /\ returned.content.items[1].type = "text"
    /\ returned.content.items[2].type = "resource"
    /\ returned.text = "Tool execution result:\nA\n[Resource: r://1]"

\* ------------------------------------------------------------------ C14
\* C14: the step in which the keep-alive loop of a task ends, by
\* cancellation or by an error, with the transport open or closed, leaves
\* no entry for the task's service id in the table; a task that has ended
\* is never the session the table holds.
FinalizerOnEveryExit ==
    /\ [](\A t \in Tasks :
            tasks[t].pc \in {"closed", "failed"} => active_connections[tasks[t].sid] # t)
    /\ [][\A t \in Tasks :
            (Ready(t) /\ ~Ready(t)')
               => /\ tasks'[t].pc = "closed"
                  /\ active_connections'[tasks[t].sid] = NoSession]_vars

\* The task of a session has ended while a call on the session was in
\* flight, and the table holds no entry for the service id.
SessionClosedUnderCall ==
    \E c \in Calls :
        /\ calls[c].pc = "calling"
        /\ tasks[calls[c].sess].pc = "closed"
        /\ ~InTable(calls[c].sid)

\* ------------------------------------------------------------------ C15
\* C15: a list_tools in flight on a session eventually returns to its
\* caller, whether or not the remote service answers.
ListToolsReturns ==
    \A c \in Calls :
        (calls[c].pc = "calling" /\ calls[c].op = "list_tools") ~> (calls[c].pc = "idle")

\* ------------------------------------------------------------------ C16
\* C16: every entry of the table is a session of that service id whose
\* initialize exchange has succeeded; an entry is written only by the step
\* that resumes from a successful initialize; and no list_tools or call_tool
\* is forwarded to, or in flight on, a session that is still connecting.
TableHoldsInitializedSessions ==
    /\ [](/\ \A s \in ServiceIds :
               InTable(s) => /\ Ready(active_connections[s])
                             /\ tasks[active_connections[s]].sid = s
           /\ \A c \in Calls :
               calls[c].pc = "calling" => ~Connecting(calls[c].sess))
    /\ [][/\ \A s \in ServiceIds :
               (active_connections'[s] # active_connections[s] /\ InTable(s)') =>
                   /\ tasks[active_connections'[s]].pc = "initializing"
                   /\ tasks[active_connections'[s]].reply = "ok"
                   /\ tasks[active_connections'[s]].sid = s
           /\ \A t \in Tasks : Forwarded(t) => Ready(t)]_vars

\* A list_tools is in flight on the session the table holds, stored by a
\* handshake whose connect received the result.
ListForwardedToReadySession ==
    \E c \in Calls :
        /\ calls[c].pc = "calling"
        /\ calls[c].op = "list_tools"
        /\ active_connections[calls[c].sid] = calls[c].sess
        /\ Ready(calls[c].sess)
        /\ futures[calls[c].sess] = "result"

\* ------------------------------------------------------------------ C17
\* C17: the future of a handshake is created pending and leaves pending at
\* most once, to a result, an exception or cancelled, and never changes
\* after; a handshake whose initialize succeeds stores its session and
\* becomes Ready, and one that fails removes the entry, whether its future
\* is still pending or was cancelled by the waiter's timeout.
FutureSingleAssignment ==
    [][\A t \in Tasks :
        /\ futures'[t] # futures[t] =>
              \/ futures[t] = "none" /\ futures'[t] = "pending"
              \/ futures[t] = "pending" /\ futures'[t] \in {"result", "exception", "cancelled"}
        /\ (tasks[t].pc = "initializing" /\ tasks[t].reply = "ok"
                                         /\ tasks'[t].pc # "initializing") =>
              /\ Ready(t)'
              /\ active_connections'[tasks[t].sid] = t
              /\ futures'[t] = IF futures[t] = "pending" THEN "result" ELSE futures[t]
        /\ (Connecting(t) /\ ~Connecting(t)' /\ ~Ready(t)') =>
              /\ tasks'[t].pc = "failed"
              /\ active_connections'[tasks[t].sid] = NoSession
              /\ futures'[t] = IF futures[t] = "pending" THEN "exception" ELSE futures[t]]_vars

\* After both waiters timed out, one handshake has failed and another has
\* stored its session; both futures stay cancelled.
ResolvedAfterWaiterTimeout ==
    /\ \E t \in Tasks : tasks[t].pc = "failed" /\ futures[t] = "cancelled"
    /\ \E t \in Tasks :
          /\ Ready(t)
          /\ futures[t] = "cancelled"
          /\ active_connections[tasks[t].sid] = t

\* ------------------------------------------------------------------ C18
\* C18: whenever the cleanup of a task deletes the entry of a service id,
\* the entry is the session of the task that ends in that step; and every
\* Ready session has the entry of its service id.
CleanupRemovesOwnSession ==
    /\ [][\A s \in ServiceIds :
            (InTable(s) /\ ~InTable(s)') =>
                tasks'[active_connections[s]] # tasks[active_connections[s]]]_vars
    /\ [](\A t \in Tasks : Ready(t) => InTable(tasks[t].sid))

\* ------------------------------------------------------------------ C19
\* C19: when connect returns the successfully-connected outcome for an
\* event-stream service, the table holds a Ready session for the service id.
ConnectedMeansInTable ==
    returned.outcome.kind = "SseConnected" =>
        /\ InTable(returned.outcome.sid)
        /\ Ready(active_connections[returned.outcome.sid])
====
